---- MODULE Spec2Model ----
(***************************************************************************)
(* A model of src/app.js (triplan): the CSV tokenizer, the header          *)
(* resolver, the load pipeline and the geocode cache with its rate         *)
(* limiter.  Strings are sequences of one-character strings, so that       *)
(* trimming, tokenizing and comparing are computed, not assumed.           *)
(***************************************************************************)
EXTENDS Integers, Sequences, FiniteSets, TLC

VARIABLES
    storage,        \* localStorage entry under geocodeCacheKey
    lastGeocodeAt,  \* module-level "last call" timestamp (app.js:172)
    now,            \* Date.now()
    calls,          \* per map pass: the geocodeNominatim call it is awaiting
    lastReqAt,      \* history: start time of the latest outbound request, -1 if none
    resolved,       \* history: queries a call returned and stored coordinates for since the last clear
    wiped,          \* history: queries cached at the last clear and not resolved again since
    csvIn,          \* parseCSV: the row written out (fields, which of them is quoted, line end)
    csvOut,         \* parseCSV: the rows returned
    hdrIn,          \* buildHeaderIndex: the header row
    hdrIdx,         \* buildHeaderIndex: the index returned
    rows,           \* module-level record set (app.js:21)
    loads,          \* activations of load(): where each one is suspended
    sourceMeta,     \* text of the #sourceMeta status element
    filters,        \* values of the #q, #type, #city and #status inputs
    filtered        \* renderAll: the records applyFilters(rows) last returned

geoVars == <<storage, lastGeocodeAt, now, calls, lastReqAt, resolved, wiped>>
csvVars == <<csvIn, csvOut>>
hdrVars == <<hdrIn, hdrIdx>>
loadVars == <<rows, loads, sourceMeta>>
viewVars == <<filters, filtered>>

vars == <<geoVars, csvVars, hdrVars, loadVars, viewVars>>

----------------------------------------------------------------------------
(* Bounds *)

NumPasses == 2      \* map passes that may overlap
MaxStops  == 2      \* queries in one pass
MaxTicks  == 3      \* clock steps explored

MaxLen    == 3      \* characters in a quoted field
MaxCols   == 2      \* columns of a header row
MaxRows   == 3      \* data rows of a loaded sheet
MaxSheet  == 2      \* data rows of a sheet the filters are applied to

Passes == 1 .. NumPasses

----------------------------------------------------------------------------
(* Strings *)

WS == {" ", "\t", "\n", "\r"}

RECURSIVE trimStart(_)
trimStart(s) ==
    IF s # <<>> /\ Head(s) \in WS THEN trimStart(Tail(s)) ELSE s

RECURSIVE trimEnd(_)
trimEnd(s) ==
    IF s # <<>> /\ s[Len(s)] \in WS THEN trimEnd(SubSeq(s, 1, Len(s) - 1)) ELSE s

\* const norm = (s) => String(s ?? "").trim()
norm(s) == trimEnd(trimStart(s))

----------------------------------------------------------------------------
(* CSV tokenizer *)

\* row.some((x) => String(x).trim() !== "")
keepRow(row) == \E i \in 1 .. Len(row) : norm(row[i]) # <<>>

\* the test of line 108, were quotes not to protect separators
separatesAlways(inQuotes, c) == c \in {",", "\n", "\r"}

\* the test of line 108: c ends a field (and, unless a comma, the row)
separates(inQuotes, c) == ~inQuotes /\ c \in {",", "\n", "\r"}

\* the loop of parseCSV (lines 97-122), i counting from 1
RECURSIVE scanCSV(_, _, _, _, _, _)
scanCSV(text, i, out, row, cell, inQuotes) ==
    IF i > Len(text)
    THEN \* lines 124-128
         IF cell # <<>> \/ row # <<>>
         THEN IF keepRow(Append(row, cell)) THEN Append(out, Append(row, cell)) ELSE out
         ELSE out
    ELSE LET c == text[i]
             n == IF i + 1 <= Len(text) THEN text[i + 1] ELSE "undefined"
         IN  IF c = "\""
             THEN IF inQuotes /\ n = "\""
                  THEN scanCSV(text, i + 2, out, row, Append(cell, "\""), inQuotes)
                  ELSE scanCSV(text, i + 1, out, row, cell, ~inQuotes)
             ELSE IF separates(inQuotes, c)
             THEN IF c = ","
                  THEN scanCSV(text, i + 1, out, Append(row, cell), <<>>, inQuotes)
                  ELSE scanCSV(text,
                               IF c = "\r" /\ n = "\n" THEN i + 2 ELSE i + 1,
                               IF keepRow(Append(row, cell))
                                   THEN Append(out, Append(row, cell)) ELSE out,
                               <<>>, <<>>, inQuotes)
             ELSE scanCSV(text, i + 1, out, row, Append(cell, c), inQuotes)

\* function parseCSV(text)
parseCSV(text) == scanCSV(text, 1, <<>>, <<>>, <<>>, FALSE)

----------------------------------------------------------------------------
(* Header resolver *)

\* const HEADER_ALIASES (lines 4-19); U221A and U2020 are the characters
\* the file holds where an accented "a" was meant
HEADER_ALIASES == [
    inc |-> <<
          <<"i", "n", "c">>,
          <<"i", "n", "d", "e", "x">>,
          <<"#">>,
          <<"i", "d">> >>,
    days |-> <<
          <<"n", " ", "d", "a", "y", "s">>,
          <<"n", ".", " ", "d", "a", "y", "s">>,
          <<"d", "a", "y", "s">>,
          <<"g", "i", "o", "r", "n", "i">>,
          <<"d", "u", "r", "a", "t", "a">> >>,
    date |-> <<
          <<"d", "a", "t", "a">>,
          <<"d", "a", "t", "e">>,
          <<"g", "i", "o", "r", "n", "o">> >>,
    activity |-> <<
          <<"a", "t", "t", "i", "v", "i", "t", "U221A", "U2020">>,
          <<"a", "t", "t", "i", "v", "i", "t", "a">>,
          <<"a", "c", "t", "i", "v", "i", "t", "y">>,
          <<"t", "i", "p", "o">>,
          <<"t", "y", "p", "e">> >>,
    from |-> <<
          <<"p", "a", "r", "t", "e", "n", "z", "a">>,
          <<"d", "a">>,
          <<"f", "r", "o", "m">>,
          <<"s", "t", "a", "r", "t">>,
          <<"o", "r", "i", "g", "i", "n", "e">>,
          <<"d", "e", "p", "a", "r", "t", "u", "r", "e">> >>,
    to |-> <<
          <<"a", "r", "r", "i", "v", "o">>,
          <<"a">>,
          <<"t", "o">>,
          <<"e", "n", "d">>,
          <<"d", "e", "s", "t", "i", "n", "a", "z", "i", "o", "n", "e">>,
          <<"a", "r", "r", "i", "v", "a", "l">> >>,
    place |-> <<
          <<"l", "u", "o", "g", "o">>,
          <<"c", "i", "t", "t", "a">>,
          <<"c", "i", "t", "t", "U221A", "U2020">>,
          <<"c", "i", "t", "y">>,
          <<"l", "o", "c", "a", "t", "i", "o", "n">>,
          <<"t", "a", "p", "p", "a">>,
          <<"s", "t", "o", "p">> >>,
    km |-> <<
          <<"k", "m">>,
          <<"k", "m", "s">>,
          <<"d", "i", "s", "t", "a", "n", "z", "a">>,
          <<"d", "i", "s", "t", "a", "n", "c", "e">> >>,
    lodging |-> <<
          <<"p", "e", "r", "n", "o", "t", "t", "a", "m", "e", "n", "t", "o">>,
          <<"h", "o", "t", "e", "l">>,
          <<"a", "l", "l", "o", "g", "g", "i", "o">>,
          <<"a", "c", "c", "o", "m", "m", "o", "d", "a", "t", "i", "o", "n">>,
          <<"l", "o", "d", "g", "i", "n", "g">> >>,
    status |-> <<
          <<"s", "t", "a", "t", "o">>,
          <<"s", "t", "a", "t", "u", "s">>,
          <<"p", "r", "e", "n", "o", "t", "a", "z", "i", "o", "n", "e">>,
          <<"b", "o", "o", "k", "i", "n", "g", " ", "s", "t", "a", "t", "u", "s">> >>,
    cost |-> <<
          <<"c", "o", "s", "t", "o">>,
          <<"c", "o", "s", "t">>,
          <<"p", "r", "e", "z", "z", "o">>,
          <<"p", "r", "i", "c", "e">>,
          <<"b", "u", "d", "g", "e", "t">> >>,
    notes |-> <<
          <<"n", "o", "t", "e">>,
          <<"n", "o", "t", "e", "s">>,
          <<"c", "o", "m", "m", "e", "n", "t", "i">>,
          <<"c", "o", "m", "m", "e", "n", "t">>,
          <<"m", "e", "m", "o">> >>,
    address |-> <<
          <<"i", "n", "d", "i", "r", "i", "z", "z", "o">>,
          <<"a", "d", "d", "r", "e", "s", "s">>,
          <<"l", "o", "c", "a", "t", "i", "o", "n", " ", "a", "d", "d", "r", "e", "s", "s">>,
          <<"p", "l", "a", "c", "e", " ", "a", "d", "d", "r", "e", "s", "s">> >>,
    link |-> <<
          <<"l", "i", "n", "k">>,
          <<"u", "r", "l">>,
          <<"b", "o", "o", "k", "i", "n", "g", " ", "l", "i", "n", "k">>,
          <<"w", "e", "b", "s", "i", "t", "e">> >> ]

\* Object.keys(HEADER_ALIASES), in declaration order
CanonicalFields == <<"inc", "days", "date", "activity", "from", "to", "place", "km", "lodging", "status", "cost", "notes", "address", "link">>

UpperCase == <<"A", "B", "C", "D", "E", "F", "G", "H", "I", "J", "K", "L", "M",
               "N", "O", "P", "Q", "R", "S", "T", "U", "V", "W", "X", "Y", "Z">>
LowerCase == <<"a", "b", "c", "d", "e", "f", "g", "h", "i", "j", "k", "l", "m",
               "n", "o", "p", "q", "r", "s", "t", "u", "v", "w", "x", "y", "z">>
Digits == {"0", "1", "2", "3", "4", "5", "6", "7", "8", "9"}

\* \w of a JavaScript regular expression
WordChars ==
    {UpperCase[i] : i \in 1 .. 26} \cup {LowerCase[i] : i \in 1 .. 26}
        \cup Digits \cup {"_"}

\* String.prototype.toLowerCase, one character (U00C0, U00E0: A, a with grave)
toLowerCase(c) ==
    IF \E i \in 1 .. 26 : UpperCase[i] = c
    THEN LowerCase[CHOOSE i \in 1 .. 26 : UpperCase[i] = c]
    ELSE IF c = "U00C0" THEN "U00E0" ELSE c

\* const low = (s) => norm(s).toLowerCase()
low(s) == LET t == norm(s) IN [i \in 1 .. Len(t) |-> toLowerCase(t[i])]

\* function stripDiacritics(s): NFD, then the combining marks removed
stripDiacritics(s) ==
    [i \in 1 .. Len(s) |->
        IF s[i] = "U00E0" THEN "a" ELSE IF s[i] = "U00C0" THEN "A" ELSE s[i]]

\* s.replace(/[class]+/g, " ")
RECURSIVE replaceRuns(_, _)
replaceRuns(s, class) ==
    IF s = <<>> THEN <<>>
    ELSE IF Head(s) \in class
        THEN IF Len(s) > 1 /\ s[2] \in class
             THEN replaceRuns(Tail(s), class)
             ELSE <<" ">> \o replaceRuns(Tail(s), class)
        ELSE <<Head(s)>> \o replaceRuns(Tail(s), class)

\* s.replace(/[^\w\s.]/g, " ")
replaceOthers(s) ==
    [i \in 1 .. Len(s) |->
        IF s[i] \in WordChars \cup WS \cup {"."} THEN s[i] ELSE " "]

\* function keyifyHeader(s)
keyifyHeader(s) ==
    norm(replaceRuns(replaceOthers(replaceRuns(stripDiacritics(low(s)), {"_", "-"})), WS))

\* HEADER_ALIASES[canonical].map((a) => keyifyHeader(a)), for every canonical
aliasKeys ==
    [c \in DOMAIN HEADER_ALIASES |->
        {keyifyHeader(HEADER_ALIASES[c][i]) : i \in 1 .. Len(HEADER_ALIASES[c])}]

\* aliases.includes(headerKey), with a substring test in place of equality
includesAsSubstring(aliases, headerKey) ==
    \E a \in aliases : \E i \in 0 .. Len(headerKey) - Len(a) :
        SubSeq(headerKey, i + 1, i + Len(a)) = a

\* aliases.includes(headerKey)
includes(aliases, headerKey) == headerKey \in aliases

\* headerKeys.findIndex((headerKey) => aliases.includes(headerKey)), from 0
findIndex(headerKeys, aliases) ==
    IF \E i \in 1 .. Len(headerKeys) : includes(aliases, headerKeys[i])
    THEN (CHOOSE i \in 1 .. Len(headerKeys) :
              /\ includes(aliases, headerKeys[i])
              /\ \A j \in 1 .. i - 1 : ~includes(aliases, headerKeys[j])) - 1
    ELSE -1

\* headerRow.map((h) => keyifyHeader(h))
RECURSIVE keyifyAll(_)
keyifyAll(headerRow) ==
    IF headerRow = <<>> THEN <<>>
    ELSE <<keyifyHeader(Head(headerRow))>> \o keyifyAll(Tail(headerRow))

\* function buildHeaderIndex(headerRow)
buildHeaderIndex(headerRow) ==
    LET headerKeys == keyifyAll(headerRow)
    IN  [c \in DOMAIN HEADER_ALIASES |-> findIndex(headerKeys, aliasKeys[c])]

----------------------------------------------------------------------------
(* Row normalizer and load *)

\* function getCell(row, idx, canonical); idx counts columns from 0
getCell(row, idx, canonical) ==
    LET i == idx[canonical]
    IN  IF i < 0 THEN <<>>
        ELSE IF i + 1 > Len(row) THEN <<>>      \* norm(undefined)
        ELSE norm(row[i + 1])

allDigits(s) == \A i \in 1 .. Len(s) : s[i] \in Digits

\* String.prototype.padStart(2, "0")
padStart2(s) == IF Len(s) < 2 THEN <<"0">> \o s ELSE s

\* function toISO(ddmmyyyy): /^(\d{1,2})\/(\d{1,2})\/(\d{4})$/
toISO(ddmmyyyy) ==
    LET v == norm(ddmmyyyy)
        fits(a, b) ==
            /\ Len(v) = a + b + 6
            /\ v[a + 1] = "/"
            /\ v[a + b + 2] = "/"
            /\ allDigits(SubSeq(v, 1, a))
            /\ allDigits(SubSeq(v, a + 2, a + b + 1))
            /\ allDigits(SubSeq(v, a + b + 3, a + b + 6))
    IN  IF \E a \in 1 .. 2, b \in 1 .. 2 : fits(a, b)
        THEN LET ab == CHOOSE ab \in (1 .. 2) \X (1 .. 2) : fits(ab[1], ab[2])
                 a  == ab[1]
                 b  == ab[2]
             IN  SubSeq(v, a + b + 3, a + b + 6) \o <<"-">>
                    \o padStart2(SubSeq(v, a + 2, a + b + 1)) \o <<"-">>
                    \o padStart2(SubSeq(v, 1, a))
        ELSE <<>>

DigitValue(c) ==
    CASE c = "0" -> 0 [] c = "1" -> 1 [] c = "2" -> 2 [] c = "3" -> 3 [] c = "4" -> 4
      [] c = "5" -> 5 [] c = "6" -> 6 [] c = "7" -> 7 [] c = "8" -> 8 [] c = "9" -> 9

RECURSIVE decimal(_)
decimal(s) == IF s = <<>> THEN 0 ELSE 10 * decimal(SubSeq(s, 1, Len(s) - 1)) + DigitValue(s[Len(s)])

\* function safeNum(v), for text that holds no "," "." or "-" (the sheets
\* of this model hold none): Number("") is 0, Number of digits their value
safeNum(v) ==
    LET s == SelectSeq(norm(v), LAMBDA c : c \in Digits \cup {",", ".", "-"})
    IN  CASE allDigits(s) -> decimal(s)

\* a || b
OrElse(a, b) == IF a # <<>> THEN a ELSE b

\* the object built for one row (lines 224-247)
makeRecord(r, idx) ==
    LET obj == [inc      |-> getCell(r, idx, "inc"),
                days     |-> getCell(r, idx, "days"),
                date     |-> getCell(r, idx, "date"),
                activity |-> getCell(r, idx, "activity"),
                from     |-> getCell(r, idx, "from"),
                to       |-> getCell(r, idx, "to"),
                place    |-> getCell(r, idx, "place"),
                km       |-> getCell(r, idx, "km"),
                lodging  |-> getCell(r, idx, "lodging"),
                status   |-> getCell(r, idx, "status"),
                cost     |-> getCell(r, idx, "cost"),
                notes    |-> getCell(r, idx, "notes"),
                address  |-> getCell(r, idx, "address"),
                link     |-> getCell(r, idx, "link")]
    IN  [inc |-> obj.inc, days |-> obj.days, date |-> obj.date,
         activity |-> obj.activity, from |-> obj.from, to |-> obj.to,
         place |-> obj.place, km |-> obj.km, lodging |-> obj.lodging,
         status |-> obj.status, cost |-> obj.cost, notes |-> obj.notes,
         address |-> obj.address, link |-> obj.link,
         dateISO |-> toISO(obj.date),
         kmNum   |-> safeNum(obj.km),
         costNum |-> safeNum(obj.cost),
         city    |-> OrElse(obj.place, OrElse(obj.to, obj.from)),
         addr    |-> OrElse(obj.address, OrElse(obj.place, OrElse(obj.to, obj.from)))]

\* a.localeCompare(b) for texts of digits and hyphens: -1, 0 or 1
Rank(c) == IF c = "-" THEN 0 ELSE 1 + DigitValue(c)

RECURSIVE localeCompare(_, _)
localeCompare(a, b) ==
    IF a = <<>> /\ b = <<>> THEN 0
    ELSE IF a = <<>> THEN -1
    ELSE IF b = <<>> THEN 1
    ELSE IF Rank(Head(a)) < Rank(Head(b)) THEN -1
    ELSE IF Rank(Head(a)) > Rank(Head(b)) THEN 1
    ELSE localeCompare(Tail(a), Tail(b))

Trip == <<"T", "r", "i", "p">>
Notte == <<"N", "o", "t", "t", "e">>

\* the comparator of line 250, with a tie on the date left a tie
compareDatesOnly(a, b) == localeCompare(a.dateISO, b.dateISO)

\* the comparator of line 250
sortCompare(a, b) ==
    LET d == localeCompare(a.dateISO, b.dateISO)
    IN  IF d # 0 THEN d ELSE IF norm(a.activity) = Trip THEN -1 ELSE 1

Reverse(s) == [i \in 1 .. Len(s) |-> s[Len(s) + 1 - i]]

\* s with the element at position from (from 1) moved to position to <= from
MoveTo(s, from, to) ==
    [i \in 1 .. Len(s) |->
        IF i < to \/ i > from THEN s[i]
        ELSE IF i = to THEN s[from] ELSE s[i - 1]]

\* Array.prototype.sort is implementation-defined for a comparator that is
\* not consistent; two engines' algorithms for short arrays are modelled.

\* V8 (TimSort, arrays shorter than a minimum run): CountAndMakeRun
RECURSIVE v8RunLength(_, _, _)
v8RunLength(a, idx, isDescending) ==
    IF idx > Len(a) THEN Len(a)
    ELSE LET order == sortCompare(a[idx], a[idx - 1])
         IN  IF (isDescending /\ order >= 0) \/ (~isDescending /\ order < 0)
             THEN idx - 1
             ELSE v8RunLength(a, idx + 1, isDescending)

\* V8: the binary search of BinaryInsertionSort; left, right count from 0
RECURSIVE v8Search(_, _, _, _)
v8Search(a, pivot, left, right) ==
    IF left >= right THEN left
    ELSE LET mid == left + (right - left) \div 2
         IN  IF sortCompare(pivot, a[mid + 1]) < 0
             THEN v8Search(a, pivot, left, mid)
             ELSE v8Search(a, pivot, mid + 1, right)

\* V8: BinaryInsertionSort from position start (from 1) on
RECURSIVE v8Insertion(_, _)
v8Insertion(a, start) ==
    IF start > Len(a) THEN a
    ELSE v8Insertion(MoveTo(a, start, v8Search(a, a[start], 0, start - 1) + 1), start + 1)

sortV8(a) ==
    IF Len(a) < 2 THEN a
    ELSE LET isDescending == sortCompare(a[2], a[1]) < 0
             n   == v8RunLength(a, 3, isDescending)
             run == SubSeq(a, 1, n)
         IN  v8Insertion((IF isDescending THEN Reverse(run) ELSE run)
                            \o SubSeq(a, n + 1, Len(a)), n + 1)

\* SpiderMonkey (InsertionSort of short arrays): where the item at position i goes
RECURSIVE smPlace(_, _, _)
smPlace(a, item, j) ==
    IF j < 1 THEN 1
    ELSE IF sortCompare(a[j], item) <= 0 THEN j + 1
    ELSE smPlace(a, item, j - 1)

RECURSIVE smInsertion(_, _)
smInsertion(a, i) ==
    IF i > Len(a) THEN a
    ELSE smInsertion(MoveTo(a, i, smPlace(a, a[i], i - 1)), i + 1)

sortSM(a) == smInsertion(a, 2)

Engines == {"v8", "spidermonkey"}

\* rows.sort(...)
sort(a, engine) == IF engine = "v8" THEN sortV8(a) ELSE sortSM(a)

\* what #sourceMeta shows: "Carico dati...", "Errore: ..." or "Fonte: ..."
Loading == "Carico dati"
Failed  == "Errore"
Shown   == "Fonte"

\* load() from "const matrix = parseCSV(text)" on (lines 215-254), were the
\* record set emptied when the date column is missing
loadedDroppingRows(text, old, engine) ==
    LET matrix == parseCSV(text)
        idx    == buildHeaderIndex(matrix[1])
        objs   == [i \in 1 .. Len(matrix) - 1 |-> makeRecord(matrix[i + 1], idx)]
        kept   == SelectSeq(objs, LAMBDA r : r.dateISO # <<>>)
    IN  IF matrix = <<>>
        THEN [rows |-> old, meta |-> Failed]
        ELSE IF idx.date < 0
        THEN [rows |-> <<>>, meta |-> Failed]
        ELSE [rows |-> sort(kept, engine), meta |-> Shown]

\* load() from "const matrix = parseCSV(text)" on (lines 215-254): the new
\* record set and the status shown (by load, or by showErr for a throw)
loaded(text, old, engine) ==
    LET matrix == parseCSV(text)
        idx    == buildHeaderIndex(matrix[1])
        objs   == [i \in 1 .. Len(matrix) - 1 |-> makeRecord(matrix[i + 1], idx)]
        kept   == SelectSeq(objs, LAMBDA r : r.dateISO # <<>>)
    IN  IF matrix = <<>>
        THEN [rows |-> old, meta |-> Failed]
        ELSE IF idx.date < 0
        THEN [rows |-> old, meta |-> Failed]
        ELSE [rows |-> sort(kept, engine), meta |-> Shown]

----------------------------------------------------------------------------
(* Filters *)

\* String(n) of a non-negative integer
RECURSIVE numberToString(_)
numberToString(n) ==
    LET d == CHOOSE c \in Digits : DigitValue(c) = n % 10
    IN  IF n < 10 THEN <<d>> ELSE numberToString(n \div 10) \o <<d>>

\* Object.values(r), in the order the properties were created (lines 224-245),
\* each as Array.prototype.join turns it into a string
values(r) ==
    <<r.inc, r.days, r.date, r.activity, r.from, r.to, r.place, r.km,
      r.lodging, r.status, r.cost, r.notes, r.address, r.link,
      r.dateISO, numberToString(r.kmNum), numberToString(r.costNum),
      r.city, r.addr>>

\* Array.prototype.join(sep)
RECURSIVE join(_, _)
join(strings, sep) ==
    IF strings = <<>> THEN <<>>
    ELSE IF Len(strings) = 1 THEN strings[1]
    ELSE strings[1] \o sep \o join(Tail(strings), sep)

\* String.prototype.toLowerCase
lowerCase(s) == [i \in 1 .. Len(s) |-> toLowerCase(s[i])]

\* String.prototype.includes
includesString(s, q) ==
    \E i \in 0 .. Len(s) - Len(q) : SubSeq(s, i + 1, i + Len(q)) = q

\* the values of the four inputs before the user touches them
NoFilters == [q |-> <<>>, type |-> <<>>, city |-> <<>>, status |-> <<>>]

\* function getFilters(), the inputs holding the values in
getFilters(in) ==
    [q |-> low(in.q), type |-> norm(in.type),
     city |-> norm(in.city), status |-> norm(in.status)]

\* the callback of data.filter in applyFilters (lines 269-276)
passes(r, f) ==
    IF f.type # <<>> /\ norm(r.activity) # f.type THEN FALSE
    ELSE IF f.city # <<>> /\ norm(r.city) # f.city THEN FALSE
    ELSE IF f.status # <<>> /\ norm(r.status) # f.status THEN FALSE
    ELSE IF f.q # <<>>
    THEN LET blob == lowerCase(join(values(r), <<" ">>))
         IN  includesString(blob, f.q)
    ELSE TRUE

\* function applyFilters(data), the inputs holding the values in
applyFilters(data, in) ==
    LET f == getFilters(in)
    IN  SelectSeq(data, LAMBDA r : passes(r, f))

\* rebuildFilters (lines 291-292, 300-301): both selects lose their options
\* and with them their selection
rebuildFilters(in) == [in EXCEPT !.city = <<>>, !.status = <<>>]

----------------------------------------------------------------------------
(* Geocode cache and rate limiter *)

MinInterval == 1100

Tick == MinInterval \div 2
PageLoadAt == MinInterval          \* Date.now() is far beyond 1100 when the page loads
MaxTime == PageLoadAt + MaxTicks * Tick

\* Query strings a pass may ask for (already or not yet trimmed)
RawQueries == { <<>>, <<"r">>, <<" ", "r">>, <<"m">> }
Queries == { norm(s) : s \in RawQueries } \ { <<>> }

StopLists == UNION { [1 .. n -> RawQueries] : n \in 1 .. MaxStops }

\* Number(x): a finite number n is <<n>>, NaN is <<>>
NumberOf(s) ==
    CASE s = "41" -> <<41>>
      [] s = "12" -> <<12>>
      [] s = "9"  -> <<9>>
      [] OTHER    -> <<>>

isFinite(n) == Len(n) = 1

\* The candidates the service may answer with (data[0] of the JSON array)
Candidates ==
    { [lat |-> a, lon |-> b, display_name |-> "d"] :
        a \in {"41", "x"}, b \in {"12"} }

EmptyCache == [k \in {} |-> <<>>]

\* JSON.stringify / JSON.parse of the cache object: a set of key-value pairs
stringify(cache) == { <<k, cache[k]>> : k \in DOMAIN cache }
parse(text) == [k \in { p[1] : p \in text } |-> (CHOOSE p \in text : p[1] = k)[2]]

NoItem == [has |-> FALSE, text |-> {}]

\* function loadGeocodeCache(): getItem(...) || "{}"
loadGeocodeCache(store) == IF store.has THEN parse(store.text) ELSE EmptyCache

\* function saveGeocodeCache(cache): setItem may throw, which is swallowed
saveGeocodeCache(store, cache, ok) ==
    IF ok THEN [has |-> TRUE, text |-> stringify(cache)] ELSE store

Pending == <<"pending">>
Null    == <<"null">>
Threw   == <<"throw">>
Hit(h)  == <<"hit", h>>

IdleCall == [pc |-> "idle", q |-> <<>>, cache |-> EmptyCache, wakeAt |-> 0,
             ret |-> Pending, todo |-> <<>>]

Max(a, b) == IF a >= b THEN a ELSE b

\* const wait = Math.max(0, 1100 - (now - lastGeocodeAt))
waitFor(t, last) == Max(0, MinInterval - (t - last))

\* geocodeNominatim(query) from its entry to its first suspension or return
\* (lines 175-186); rest are the stops the calling pass still has to resolve
begin(query, rest, store) ==
    LET q     == norm(query)
        cache == loadGeocodeCache(store)
        wait  == waitFor(now, lastGeocodeAt)
        c     == [IdleCall EXCEPT !.q = q, !.todo = rest]
    IN  IF q = <<>> THEN [c EXCEPT !.pc = "returned", !.ret = Null]
        ELSE IF q \in DOMAIN cache
            THEN [c EXCEPT !.pc = "returned", !.ret = Hit(cache[q])]
        ELSE IF wait > 0
            THEN [c EXCEPT !.pc = "sleep", !.cache = cache, !.wakeAt = now + wait]
        ELSE [c EXCEPT !.pc = "fetch", !.cache = cache]

\* settle, were a miss cached like a hit
settleCachingMiss(cache, q, data) ==
    LET bad == [lat |-> <<>>, lng |-> <<>>, display |-> ""]
        hit == IF data = <<>> THEN bad
               ELSE [lat |-> NumberOf(data[1].lat),
                     lng |-> NumberOf(data[1].lon),
                     display |-> data[1].display_name]
        ok  == isFinite(hit.lat) /\ isFinite(hit.lng)
    IN  [ret |-> IF ok THEN Hit(hit) ELSE Null, save |-> TRUE,
         cache |-> [k \in DOMAIN cache \cup {q} |-> IF k = q THEN hit ELSE cache[k]]]

\* lines 191-205: what the call does with the parsed response body.
\* Gives the value returned and the cache object to save (or none).
settle(cache, q, data) ==
    IF data = <<>> THEN [ret |-> Null, save |-> FALSE, cache |-> cache]
    ELSE LET hit == [lat |-> NumberOf(data[1].lat),
                     lng |-> NumberOf(data[1].lon),
                     display |-> data[1].display_name]
         IN  IF isFinite(hit.lat) /\ isFinite(hit.lng)
             THEN [ret |-> Hit(hit), save |-> TRUE,
                   cache |-> [k \in DOMAIN cache \cup {q} |->
                                 IF k = q THEN hit ELSE cache[k]]]
             ELSE [ret |-> Null, save |-> FALSE, cache |-> cache]

\* History kept for the properties: a call that starts clears its query's
\* "wiped" mark; a request that starts is timed.
Started(c) ==
    /\ wiped' = wiped \ {c.q}
    /\ lastReqAt' = IF c.pc = "fetch" THEN now ELSE lastReqAt

\* Pass slots are interchangeable: a new pass takes the lowest free one
FreeSlot(p) ==
    /\ calls[p].pc = "idle"
    /\ \A r \in Passes : r < p => calls[r].pc # "idle"

\* setTab / setMapMode / renderAll -> renderMap -> renderRouteMap | renderNightMap:
\* a pass over a list of stops begins and calls geocodeNominatim for the first
StartPass(p, stops) ==
    /\ FreeSlot(p)
    /\ LET c == begin(stops[1], Tail(stops), storage)
       IN  /\ calls' = [calls EXCEPT ![p] = c]
           /\ Started(c)
    /\ UNCHANGED <<storage, lastGeocodeAt, now, resolved, csvVars, hdrVars, loadVars, viewVars>>

\* if (wait) await sleep(wait): the timer fires and the request is issued
Wake(p) ==
    /\ calls[p].pc = "sleep"
    /\ now >= calls[p].wakeAt
    /\ calls' = [calls EXCEPT ![p].pc = "fetch", ![p].wakeAt = 0]
    /\ lastReqAt' = now
    /\ UNCHANGED <<storage, lastGeocodeAt, now, resolved, wiped, csvVars, hdrVars, loadVars, viewVars>>

\* await fetch(url, ...) settles: rejected (transport error), or a response
\* with res.ok false or true (lines 186-188)
FetchSettle(p, outcome) ==
    /\ calls[p].pc = "fetch"
    /\ IF outcome = "reject"
       THEN /\ calls' = [calls EXCEPT ![p].pc = "returned", ![p].ret = Threw,
                                      ![p].cache = EmptyCache]
            /\ UNCHANGED lastGeocodeAt
       ELSE /\ lastGeocodeAt' = now
            /\ calls' = IF outcome = "notok"
                        THEN [calls EXCEPT ![p].pc = "returned", ![p].ret = Null,
                                          ![p].cache = EmptyCache]
                        ELSE [calls EXCEPT ![p].pc = "json"]
    /\ UNCHANGED <<storage, now, lastReqAt, resolved, wiped, csvVars, hdrVars, loadVars, viewVars>>

\* await res.json() settles with the parsed array (lines 190-205)
JsonSettle(p, data, writeOk) ==
    /\ calls[p].pc = "json"
    /\ LET r == settle(calls[p].cache, calls[p].q, data)
       IN  /\ calls' = [calls EXCEPT ![p].pc = "returned", ![p].ret = r.ret,
                                     ![p].cache = EmptyCache]
           /\ storage' = IF r.save THEN saveGeocodeCache(storage, r.cache, writeOk)
                         ELSE storage
           /\ resolved' = IF r.save /\ writeOk THEN resolved \cup {calls[p].q}
                          ELSE resolved
    /\ UNCHANGED <<lastGeocodeAt, now, lastReqAt, wiped, csvVars, hdrVars, loadVars, viewVars>>

\* await res.json() rejects (the body is not JSON): the call throws
JsonReject(p) ==
    /\ calls[p].pc = "json"
    /\ calls' = [calls EXCEPT ![p].pc = "returned", ![p].ret = Threw,
                              ![p].cache = EmptyCache]
    /\ UNCHANGED <<storage, lastGeocodeAt, now, lastReqAt, resolved, wiped, csvVars, hdrVars, loadVars, viewVars>>

\* the pass resumes after "await geocodeNominatim(...)" (lines 580-583, 616-618):
\* a rejection ends the pass, otherwise the next stop is resolved
Resume(p) ==
    /\ calls[p].pc = "returned"
    /\ IF calls[p].ret = Threw \/ calls[p].todo = <<>>
       THEN /\ calls' = [calls EXCEPT ![p] = IdleCall]
            /\ UNCHANGED <<lastReqAt, wiped>>
       ELSE LET c == begin(Head(calls[p].todo), Tail(calls[p].todo), storage)
            IN  /\ calls' = [calls EXCEPT ![p] = c]
                /\ Started(c)
    /\ UNCHANGED <<storage, lastGeocodeAt, now, resolved, csvVars, hdrVars, loadVars, viewVars>>

\* btnClearGeo click handler (lines 675-679): removeItem, then renderMap,
\* which starts no call when the map is hidden or there are no stops
ClearGeo ==
    /\ storage' = NoItem
    /\ resolved' = {}
    /\ wiped' = wiped \cup DOMAIN loadGeocodeCache(storage)
    /\ UNCHANGED <<lastGeocodeAt, now, calls, lastReqAt, csvVars, hdrVars, loadVars, viewVars>>

ClearGeoAndPass(p, stops) ==
    /\ FreeSlot(p)
    /\ storage' = NoItem
    /\ resolved' = {}
    /\ LET c == begin(stops[1], Tail(stops), NoItem)
       IN  /\ calls' = [calls EXCEPT ![p] = c]
           /\ wiped' = (wiped \cup DOMAIN loadGeocodeCache(storage)) \ {c.q}
           /\ lastReqAt' = IF c.pc = "fetch" THEN now ELSE lastReqAt
    /\ UNCHANGED <<lastGeocodeAt, now, csvVars, hdrVars, loadVars, viewVars>>

\* time passes
Advance ==
    /\ now + Tick <= MaxTime
    /\ now' = now + Tick
    /\ UNCHANGED <<storage, lastGeocodeAt, calls, lastReqAt, resolved, wiped, csvVars, hdrVars, loadVars, viewVars>>

GeoInit ==
    /\ storage = NoItem
    /\ lastGeocodeAt = 0
    /\ now = PageLoadAt
    /\ calls = [p \in Passes |-> IdleCall]
    /\ lastReqAt = -1
    /\ resolved = {}
    /\ wiped = {}

Next ==
    \/ \E p \in Passes, stops \in StopLists : StartPass(p, stops)
    \/ \E p \in Passes : Wake(p)
    \/ \E p \in Passes, o \in {"reject", "notok", "ok"} : FetchSettle(p, o)
    \/ \E p \in Passes, d \in {<<>>} \cup { <<c>> : c \in Candidates },
          w \in BOOLEAN : JsonSettle(p, d, w)
    \/ \E p \in Passes : JsonReject(p)
    \/ \E p \in Passes : Resume(p)
    \/ ClearGeo
    \/ \E p \in Passes, stops \in StopLists : ClearGeoAndPass(p, stops)
    \/ Advance

----------------------------------------------------------------------------
(* The tokenizer applied to one written row *)

FieldChars == {"a", " ", ",", "\n", "\r", "\""}
Contents == UNION { [1 .. n -> FieldChars] : n \in 0 .. MaxLen }
LineEnds == { <<>>, <<"\n">>, <<"\r", "\n">> }

\* a field written quoted: enclosed in double quotes, inner quotes doubled
RECURSIVE doubled(_)
doubled(s) ==
    IF s = <<>> THEN <<>>
    ELSE (IF Head(s) = "\"" THEN <<"\"", "\"">> ELSE <<Head(s)>>) \o doubled(Tail(s))

quoted(s) == <<"\"">> \o doubled(s) \o <<"\"">>

Plain == <<"x">>

\* the row of csvIn as fields, and as the text written for it
rowFields(in) ==
    (IF in.pre = 1 THEN <<Plain>> ELSE <<>>) \o <<in.content>>
        \o (IF in.post = 1 THEN <<Plain>> ELSE <<>>)

rowText(in) ==
    (IF in.pre = 1 THEN Plain \o <<",">> ELSE <<>>) \o quoted(in.content)
        \o (IF in.post = 1 THEN <<",">> \o Plain ELSE <<>>) \o in.eol

NoRows == [done |-> FALSE, rows |-> <<>>]

CsvInit ==
    /\ csvIn \in [pre : {0, 1}, content : Contents, post : {0, 1}, eol : LineEnds]
    /\ csvOut = NoRows

Tokenize ==
    /\ ~csvOut.done
    /\ csvOut' = [done |-> TRUE, rows |-> parseCSV(rowText(csvIn))]
    /\ UNCHANGED <<csvIn, geoVars, hdrVars, loadVars, viewVars>>

----------------------------------------------------------------------------
(* The header resolver applied to one header row *)

HeaderCells ==
    UNION { {HEADER_ALIASES[c][i] : i \in 1 .. Len(HEADER_ALIASES[c])} :
                c \in DOMAIN HEADER_ALIASES }
      \cup { <<"D", "A", "T", "A">>, <<"B", "o", "o", "k", "i", "n", "g", "_", "S", "t", "a", "t", "u", "s">>,
             <<"C", "i", "t", "t", "U00E0">>,
             <<"c", "o", "l", "o", "r", "e">>, <<>> }

NoIndex == [done |-> FALSE, idx |-> [c \in DOMAIN HEADER_ALIASES |-> -1]]

HdrInit ==
    /\ hdrIn \in UNION { [1 .. n -> HeaderCells] : n \in 1 .. MaxCols }
    /\ hdrIdx = NoIndex

Resolve ==
    /\ ~hdrIdx.done
    /\ hdrIdx' = [done |-> TRUE, idx |-> buildHeaderIndex(hdrIn)]
    /\ UNCHANGED <<hdrIn, geoVars, csvVars, loadVars, viewVars>>

----------------------------------------------------------------------------
(* load() and its callers *)

\* the activations of load(): the call at start-up (line 681) and one
\* started by the reload button (line 674), which may overlap
Loads == {"initial", "reload"}

SheetRows ==
    { <<<<"1", "/", "2", "/", "2", "0", "2", "4">>, Trip>>,
      <<<<"1", "/", "2", "/", "2", "0", "2", "4">>, Notte>>,
      <<<<"3", "/", "1", "/", "2", "0", "2", "4">>, Notte>>,
      <<<<"2", "0", "2", "4", "-", "0", "1", "-", "0", "5">>, Trip>> }
Sheets == UNION { [1 .. n -> SheetRows] : n \in 0 .. MaxRows }

RECURSIVE sheetLines(_)
sheetLines(sheet) ==
    IF sheet = <<>> THEN <<>>
    ELSE <<"\n">> \o Head(sheet)[1] \o <<",">> \o Head(sheet)[2] \o sheetLines(Tail(sheet))

\* the published CSV: a header row and the data rows
sheetText(sheet) == <<"D", "a", "t", "a", ",", "T", "i", "p", "o">> \o sheetLines(sheet)

\* texts no record set can be built from: empty, blank lines, no date column
BadTexts == { <<>>, <<"\n", " ", "\n">>,
              <<"t", "i", "p", "o", ",", "k", "m">> \o <<"\n">> \o <<"1", "/", "2", "/", "2", "0", "2", "4">> \o <<",">> \o Trip }

Texts == { sheetText(sh) : sh \in Sheets } \cup BadTexts

LoadInit ==
    /\ rows = <<>>
    /\ loads = [l \in Loads |-> IF l = "initial" THEN "fetch" ELSE "idle"]
    /\ sourceMeta = Loading
    /\ filters = NoFilters
    /\ filtered = <<>>

\* btnReload click (line 674): load() runs to its first await
LoadStart(l) ==
    /\ l = "reload"
    /\ loads[l] = "idle"
    /\ loads' = [loads EXCEPT ![l] = "fetch"]
    /\ sourceMeta' = Loading
    /\ UNCHANGED <<rows, geoVars, csvVars, hdrVars, viewVars>>

\* await fetch(url) settles (lines 211-212); a throw goes to showErr
LoadFetchSettle(l, outcome) ==
    /\ loads[l] = "fetch"
    /\ IF outcome = "ok"
       THEN /\ loads' = [loads EXCEPT ![l] = "text"]
            /\ UNCHANGED sourceMeta
       ELSE /\ loads' = [loads EXCEPT ![l] = "idle"]
            /\ sourceMeta' =
                 Failed
    /\ UNCHANGED <<rows, geoVars, csvVars, hdrVars, viewVars>>

\* await res.text() settles with the text (lines 214-254)
LoadTextSettle(l, text, engine) ==
    /\ loads[l] = "text"
    /\ \E r \in {loaded(text, rows, engine)} :
           /\ rows' = r.rows
           /\ sourceMeta' = r.meta
           /\ filters' = IF r.meta = Shown THEN rebuildFilters(filters) ELSE filters
           /\ filtered' = IF r.meta = Shown
                          THEN applyFilters(r.rows, rebuildFilters(filters))
                          ELSE filtered
    /\ loads' = [loads EXCEPT ![l] = "idle"]
    /\ UNCHANGED <<geoVars, csvVars, hdrVars>>

\* await res.text() rejects: the throw goes to showErr
LoadTextReject(l) ==
    /\ loads[l] = "text"
    /\ loads' = [loads EXCEPT ![l] = "idle"]
    /\ sourceMeta' = Failed
    /\ UNCHANGED <<rows, geoVars, csvVars, hdrVars, viewVars>>

----------------------------------------------------------------------------
(* The filters applied to a loaded sheet *)

\* data rows of the sheet: date, kind, origin, destination, booking status
FilterRows ==
    { <<"1", "/", "2", "/", "2", "0", "2", "4", ",">> \o Trip \o <<",", "M", "a", ",", "m", ",", "o", "k">>,
      <<"1", "/", "2", "/", "2", "0", "2", "4", ",">> \o Notte \o <<",", ",", "M", "b", ",">>,
      <<"3", "/", "1", "/", "2", "0", "2", "4", ",">> \o Trip \o <<",", "a", ",", ",", "o", "k">> }
FilterSheets == UNION { [1 .. n -> FilterRows] : n \in 1 .. MaxSheet }

\* the published CSV: the header "Data,Tipo,Da,A,Stato" and the data rows
RECURSIVE filterLines(_)
filterLines(sheet) ==
    IF sheet = <<>> THEN <<>>
    ELSE <<"\n">> \o Head(sheet) \o filterLines(Tail(sheet))
filterText(sheet) ==
    <<"D", "a", "t", "a", ",", "T", "i", "p", "o", ",", "D", "a", ",", "A", ",",
      "S", "t", "a", "t", "o">> \o filterLines(sheet)

\* what the user types into #q
QueryTexts ==
    { <<>>, <<"M">>, <<"m", "a">>, <<"a", " ", "m">>, <<" ", "m", "b">>, <<"x">>,
      <<"-", "0", "2">>, <<"0">> }

\* the values an input can take: free text, or one of the options of a select
InputValues(id) ==
    CASE id = "q"      -> QueryTexts
      [] id = "type"   -> {<<>>, Trip, Notte}
      [] id = "city"   -> {<<>>} \cup { rows[i].city : i \in 1 .. Len(rows) }
      [] id = "status" -> {<<>>} \cup { rows[i].status : i \in 1 .. Len(rows) }

\* the page once the initial load() has gone through
FilterInit ==
    /\ rows \in { loaded(filterText(sh), <<>>, e).rows : sh \in FilterSheets, e \in Engines }
    /\ loads = [l \in Loads |-> "idle"]
    /\ sourceMeta = Shown
    /\ filters = NoFilters
    /\ filtered = rows

\* "input" / "change" on #q, #type, #city, #status (lines 668-672): renderAll
Input(id, value) ==
    /\ value # filters[id]
    /\ filters' = [filters EXCEPT ![id] = value]
    /\ filtered' = applyFilters(rows, filters')
    /\ UNCHANGED <<geoVars, csvVars, hdrVars, loadVars>>

----------------------------------------------------------------------------
(* Specifications: one per component *)

CsvIdle ==
    /\ csvIn = [pre |-> 0, content |-> <<>>, post |-> 0, eol |-> <<>>]
    /\ csvOut = NoRows

HdrIdle == hdrIn = <<>> /\ hdrIdx = NoIndex

LoadIdle ==
    /\ rows = <<>>
    /\ loads = [l \in Loads |-> "idle"]
    /\ sourceMeta = ""
    /\ filters = NoFilters
    /\ filtered = <<>>

\* the geocode cache and rate limiter
Init == GeoInit /\ CsvIdle /\ HdrIdle /\ LoadIdle
Spec == Init /\ [][Next]_vars

\* parseCSV
InitCsv == CsvInit /\ GeoInit /\ HdrIdle /\ LoadIdle
NextCsv == Tokenize
SpecCsv == InitCsv /\ [][NextCsv]_vars

\* buildHeaderIndex
InitHdr == HdrInit /\ GeoInit /\ CsvIdle /\ LoadIdle
NextHdr == Resolve
SpecHdr == InitHdr /\ [][NextHdr]_vars

\* load
InitLoad == LoadInit /\ GeoInit /\ CsvIdle /\ HdrIdle
NextLoad ==
    \/ \E l \in Loads : LoadStart(l)
    \/ \E l \in Loads, o \in {"reject", "notok", "ok"} : LoadFetchSettle(l, o)
    \/ \E l \in Loads, t \in Texts, e \in Engines : LoadTextSettle(l, t, e)
    \/ \E l \in Loads : LoadTextReject(l)
SpecLoad == InitLoad /\ [][NextLoad]_vars

\* the filters
InitFilter == FilterInit /\ GeoInit /\ CsvIdle /\ HdrIdle
NextFilter ==
    \/ \E v \in InputValues("q") : Input("q", v)
    \/ \E v \in InputValues("type") : Input("type", v)
    \/ \E v \in InputValues("city") : Input("city", v)
    \/ \E v \in InputValues("status") : Input("status", v)
SpecFilter == InitFilter /\ [][NextFilter]_vars

----------------------------------------------------------------------------
(* Properties of the geocode cache and rate limiter *)

\* a step in which pass p enters geocodeNominatim
BeginStep(p) ==
    /\ calls[p].pc \in {"idle", "returned"}
    /\ calls'[p].pc # "idle"
    /\ calls'[p] # calls[p]

\* a step in which the call of pass p issues its outbound request
IssueStep(p) == calls[p].pc # "fetch" /\ calls'[p].pc = "fetch"

\* a step in which the call of pass p ends without coordinates after a request
FailStep(p) ==
    /\ calls[p].pc \in {"fetch", "json"}
    /\ calls'[p].pc = "returned"
    /\ calls'[p].ret[1] # "hit"

Keys(store) == DOMAIN loadGeocodeCache(store)

\* C1: any two outbound requests start at least 1100 ms apart, also when
\* the calls that issue them are pending at the same time.
C1_MinSpacing ==
    [][\A p \in Passes :
          IssueStep(p) => (lastReqAt = -1 \/ now - lastReqAt >= MinInterval)]_vars

\* C2: once a call has returned (and stored) coordinates for a query and the
\* cache was not cleared since, a later call with the same trimmed query
\* returns the stored result at once: no wait, no outbound request.
C2_SecondCallCached ==
    [][\A p \in Passes :
          (BeginStep(p) /\ calls'[p].q \in resolved')
              => /\ calls'[p].pc = "returned"
                 /\ calls'[p].ret[1] = "hit"
                 /\ lastReqAt' = lastReqAt]_vars

\* C3: after a clear, the next call for a query that was cached before the
\* clear goes to the network (rate-limit wait, then request) instead of
\* returning a stored result.
C3_FreshAfterClear ==
    [][\A p \in Passes :
          (BeginStep(p) /\ calls'[p].q \in
              (wiped \cup (IF storage'.has THEN {} ELSE Keys(storage))))
              => calls'[p].pc \in {"sleep", "fetch"}]_vars

\* C4: an entry written to durable storage stays there with the same value
\* until a clear, whatever other calls do.
C4_EntriesPersist ==
    [][storage'.has =>
          \A k \in Keys(storage) :
              /\ k \in Keys(storage')
              /\ loadGeocodeCache(storage')[k] = loadGeocodeCache(storage)[k]]_vars

\* C5: a resolve call never raises; every failure makes it return none.
C5_NeverRaises == \A p \in Passes : calls[p].ret # Threw

\* C6: a call that ends in failure or without a result leaves the cache as it
\* was, and a call for a query that has no cache entry goes to the network.
C6_FailureNotCached ==
    [][\A p \in Passes :
          /\ FailStep(p) => storage' = storage
          /\ (BeginStep(p) /\ calls'[p].q # <<>> /\ calls'[p].q \notin Keys(storage'))
                => calls'[p].pc \in {"sleep", "fetch"}]_vars

\* a call for a query has just failed, nothing is stored for the query, and
\* the same pass is about to resolve the same query again
C6_Witness ==
    \E p \in Passes :
        /\ calls[p].pc = "returned"
        /\ calls[p].ret = Null
        /\ calls[p].q # <<>>
        /\ calls[p].q \notin Keys(storage)
        /\ calls[p].todo # <<>>
        /\ norm(Head(calls[p].todo)) = calls[p].q
        /\ lastReqAt # -1

----------------------------------------------------------------------------
(* Properties of the load pipeline, the tokenizer and the header resolver *)

\* C7: the record set is always sorted ascending by ISO date and, among
\* records of one date, every "Trip" record precedes every other record.
C7_SortedTripFirst ==
    \A i, j \in 1 .. Len(rows) :
        i < j =>
            /\ localeCompare(rows[i].dateISO, rows[j].dateISO) <= 0
            /\ (rows[i].dateISO = rows[j].dateISO /\ rows[j].activity = Trip)
                  => rows[i].activity = Trip

\* a load has produced three records of one date, two trips and a night
C7_Witness ==
    /\ sourceMeta = Shown
    /\ Len(rows) = 3
    /\ rows[1].dateISO = rows[3].dateISO
    /\ rows[1].activity = Trip
    /\ rows[2].activity = Trip
    /\ rows[3].activity = Notte

\* C8: a load that fails (transport error, non-success response, empty or
\* unreadable text, no date column) leaves the record set as it was.
C8_FailedLoadKeepsRows ==
    [][\A l \in Loads :
          (loads[l] # "idle" /\ loads'[l] = "idle" /\ sourceMeta' = Failed)
              => rows' = rows]_vars

\* a load has failed after an earlier one produced records, which remain
C8_Witness ==
    /\ sourceMeta = Failed
    /\ rows # <<>>
    /\ \A l \in Loads : loads[l] = "idle"

\* C9: a field that is not all white space, written quoted with its quotes
\* doubled, is read back by parseCSV as one field with the same content,
\* in its place in a single row.
C9_QuotedFieldReadBack ==
    (csvOut.done /\ norm(csvIn.content) # <<>>)
        => csvOut.rows = <<rowFields(csvIn)>>

\* a field holding a comma, a line feed and a quote, between two others
C9_Witness ==
    /\ csvOut.done
    /\ csvIn.content = <<",", "\n", "\"">>
    /\ csvIn.pre = 1
    /\ csvIn.post = 1
    /\ Len(csvOut.rows) = 1
    /\ Len(csvOut.rows[1]) = 3

\* C10: the header resolver maps no column to two canonical fields.
C10_OneFieldPerColumn ==
    hdrIdx.done =>
        \A c1, c2 \in DOMAIN HEADER_ALIASES :
            (c1 # c2 /\ hdrIdx.idx[c1] >= 0) => hdrIdx.idx[c1] # hdrIdx.idx[c2]

\* a header whose two columns resolve to two fields with similar aliases
C10_Witness ==
    /\ hdrIdx.done
    /\ hdrIn = <<<<"l", "o", "c", "a", "t", "i", "o", "n">>, <<"l", "o", "c", "a", "t", "i", "o", "n", " ", "a", "d", "d", "r", "e", "s", "s">>>>
    /\ hdrIdx.idx.place = 0
    /\ hdrIdx.idx.address = 1

----------------------------------------------------------------------------
(* Properties of the filters *)

\* some field value of r, core or derived, contains q whatever the case
SomeFieldContains(r, q) ==
    \E i \in 1 .. Len(values(r)) : includesString(lowerCase(values(r)[i]), q)

\* r is among the records the filters let through
Passed(r) == \E j \in 1 .. Len(filtered) : filtered[j] = r

\* C11: with a non-empty free-text criterion (trimmed and lower-cased, as
\* getFilters reads it) and no other filter set, a record passes the filter
\* if and only if one of its field values, core or derived, contains the
\* criterion as a case-insensitive substring.
C11_FreeTextPerField ==
    LET q == low(filters.q)
    IN  (q # <<>> /\ filters.type = <<>> /\ filters.city = <<>> /\ filters.status = <<>>)
            => \A i \in 1 .. Len(rows) : Passed(rows[i]) <=> SomeFieldContains(rows[i], q)

----------------------------------------------------------------------------
(* The timestamp of the rate limiter *)

\* C12: the shared last-call timestamp is written when a request is issued:
\* once a request has been issued (while it awaits its response, and after
\* it failed too) the timestamp equals the start time of the latest request.
C12_TimestampAtCallTime == lastReqAt # -1 => lastGeocodeAt = lastReqAt

====
